---- MODULE Spec2Model ----
(***************************************************************************)
(* A model of refo.py, the interactive scraper of the PESU Academy portal: *)
(* the range selector (parse_range), the class-row parser                  *)
(* (parse_live_unit_classes), the resolver (fetch_preview_and_ids), the    *)
(* downloader (download_by_ids) and the run's pipeline (main).             *)
(*                                                                         *)
(* Strings the code parses are sequences of one-character strings. An HTTP *)
(* call is modelled by the response it returns.                            *)
(***************************************************************************)
EXTENDS Integers, Sequences, FiniteSets, TLC

VARIABLES
    pc,         \* position of the run, or of the function under check
    text,       \* parse_range: the expression typed by the user
    max_n,      \* parse_range: the number of entries to choose from
    result,     \* parse_range: what the call produced (a list, or an exception)
    row,        \* parse_live_unit_classes: the table row being parsed
    entry,      \* the class entry parsed from the row, handed to the resolver
    doc_ids,    \* fetch_preview_and_ids: the list of ids returned
    html,       \* fetch_preview_and_ids: the markup returned with the ids
    log,        \* the requests issued by the operation under way, in order
    si_no,      \* download_by_ids: the sequence number of the class
    title,      \* download_by_ids: the title of the class
    dl_i,       \* download_by_ids: the position in doc_ids of the id at hand
    resp,       \* download_by_ids: the response to the request for that id
    filename,   \* download_by_ids: the file name chosen for that response
    saved,      \* download_by_ids: the paths saved so far
    fs,         \* the writes attempted so far: the path, the id, the outcome
    sem_id,     \* main: the id of the semester chosen
    course_id,  \* main: the course id of the subject chosen
    unit_id,    \* main: the unit id of the unit chosen
    class_items, \* main: the class entries of the unit
    indices,    \* main: the class indices selected
    pos,        \* main: the position in indices of the class at hand
    resolved,   \* the class indices handed to the resolver so far, in order
    issued,     \* the endpoints requested so far in the run
    earlier     \* the paths saved by the classes of the run already done

rangeVars == <<text, max_n, result>>

resolveVars == <<row, entry, doc_ids, html, log>>

downloadVars == <<si_no, title, dl_i, resp, filename, saved, fs>>

mainVars == <<sem_id, course_id, unit_id, class_items, indices, pos, resolved>>

vars ==
    <<pc, text, max_n, result, row, entry, doc_ids, html, log,
      si_no, title, dl_i, resp, filename, saved, fs,
      sem_id, course_id, unit_id, class_items, indices, pos, resolved, issued, earlier>>

----------------------------------------------------------------------------
(* Bounds of the model *)

\* longest range expression typed
MaxLen == 4
\* largest number of entries offered to the range selector
MaxN == 3
\* longest markup returned by a resolve endpoint, in fragments
MaxFrags == 2
\* longest Content-Disposition header, in tokens
MaxCd == 3
\* most rows in a table of semesters, subjects, units or classes
MaxRows == 2

----------------------------------------------------------------------------
(* Python values *)

\* None: a value that no string of the model equals
None == <<"None">>

\* a normal return of value v
Return(v) == [exc |-> "none", val |-> v]

\* an exception of type e leaving the function
Raise(e) == [exc |-> e, val |-> <<>>]

\* list(range(a, b + 1))
Range(a, b) == [i \in 1..(b - a + 1) |-> a + i - 1]

Min(a, b) == IF a <= b THEN a ELSE b

Max(a, b) == IF a >= b THEN a ELSE b

\* every sequence over S of length at most n
SeqsUpTo(S, n) == UNION {[1..m -> S] : m \in 0..n}

----------------------------------------------------------------------------
(* Strings *)

Digits == {"0", "1", "2"}

DigitVal(c) == CASE c = "0" -> 0 [] c = "1" -> 1 [] c = "2" -> 2 [] OTHER -> 0

IsSpace(c) == c = " "

RECURSIVE LStrip(_)
LStrip(s) == IF s # <<>> /\ IsSpace(Head(s)) THEN LStrip(Tail(s)) ELSE s

RECURSIVE RStrip(_)
RStrip(s) ==
    IF s # <<>> /\ IsSpace(s[Len(s)]) THEN RStrip(SubSeq(s, 1, Len(s) - 1)) ELSE s

\* str.strip()
Strip(s) == RStrip(LStrip(s))

\* "c" in s
Contains(s, c) == \E i \in 1..Len(s) : s[i] = c

\* s.index(c), for a string that contains c
IndexOf(s, c) == CHOOSE i \in 1..Len(s) : s[i] = c /\ \A j \in 1..(i - 1) : s[j] # c

\* s.split(c, 1), for a string that contains c
Split1(s, c) ==
    LET i == IndexOf(s, c) IN <<SubSeq(s, 1, i - 1), SubSeq(s, i + 1, Len(s))>>

RECURSIVE DecVal(_)
DecVal(ds) ==
    IF ds = <<>> THEN 0 ELSE 10 * DecVal(SubSeq(ds, 1, Len(ds) - 1)) + DigitVal(ds[Len(ds)])

AllDigits(ds) == ds # <<>> /\ \A i \in 1..Len(ds) : ds[i] \in Digits

\* int(s): surrounding whitespace is ignored, one leading sign is allowed, the
\* rest is one or more digits; anything else raises ValueError
PyInt(s) ==
    LET t == Strip(s)
        neg == t # <<>> /\ Head(t) = "-"
        ds == IF neg THEN Tail(t) ELSE t
    IN  IF AllDigits(ds)
        THEN Return(IF neg THEN 0 - DecVal(ds) ELSE DecVal(ds))
        ELSE Raise("ValueError")

----------------------------------------------------------------------------
(* parse_range *)

\* max(1, min(max_n, v))
Clamp(v, n) == Max(1, Min(n, v))

\* the bounds kept as typed
SwapBounds_NoSwap(start, end) == <<start, end>>

\* lines 379-380: reversed bounds are swapped
SwapBounds(start, end) == IF start > end THEN <<end, start>> ELSE <<start, end>>

\* lines 373-383: the start-end form; the two int() calls are outside any try
parse_dash(s, n) ==
    LET ab == Split1(s, "-")
        a == Strip(ab[1])
        b == Strip(ab[2])
        ia == IF a = <<>> THEN Return(1) ELSE PyInt(a)
        ib == IF b = <<>> THEN Return(n) ELSE PyInt(b)
    IN  IF ia.exc # "none" THEN Raise(ia.exc)
        ELSE IF ib.exc # "none" THEN Raise(ib.exc)
        ELSE LET se == SwapBounds(ia.val, ib.val)
                 start == Clamp(se[1], n)
                 end == Clamp(se[2], n)
             IN  Return(Range(start, end))

\* lines 384-390: a single integer; the int() call is inside the try
parse_single(s, n) ==
    LET v == PyInt(s)
    IN  IF v.exc = "none" /\ 1 <= v.val /\ v.val <= n
        THEN Return(<<v.val>>)
        ELSE Return(<<>>)

parse_range(t, n) ==
    LET s == Strip(t)
    IN  IF s = <<>> \/ s = <<"-">> THEN Return(Range(1, n))
        ELSE IF Contains(s, "-") THEN parse_dash(s, n)
        ELSE parse_single(s, n)

----------------------------------------------------------------------------
(* The range selector on its own: any expression, any number of entries *)

RangeChars == Digits \cup {"-", " ", "a"}

MainIdle ==
    /\ sem_id = None
    /\ course_id = None
    /\ unit_id = None
    /\ class_items = <<>>
    /\ indices = <<>>
    /\ pos = 0
    /\ resolved = <<>>
    /\ issued = {}
    /\ earlier = {}

DownloadIdle ==
    /\ si_no = 0
    /\ title = <<>>
    /\ dl_i = 0
    /\ resp = None
    /\ filename = None
    /\ saved = <<>>
    /\ fs = <<>>

ResolveIdle ==
    row = None /\ entry = None /\ doc_ids = <<>> /\ html = <<>> /\ log = <<>>

RangeIdle == text = <<>> /\ max_n = 0 /\ result = None

InitRange ==
    /\ pc = "range"
    /\ text \in SeqsUpTo(RangeChars, MaxLen)
    /\ max_n \in 0..MaxN
    /\ result = None
    /\ ResolveIdle
    /\ DownloadIdle
    /\ MainIdle

CallParseRange ==
    /\ pc = "range"
    /\ result' = parse_range(text, max_n)
    /\ pc' = "range_done"
    /\ UNCHANGED <<text, max_n>>
    /\ UNCHANGED resolveVars
    /\ UNCHANGED downloadVars
    /\ UNCHANGED <<mainVars, issued, earlier>>

NextRange == CallParseRange

SpecRange == InitRange /\ [][NextRange]_vars

----------------------------------------------------------------------------
(* Claims about the range selector, checked under SpecRange *)

RangeDone == pc = "range_done"

\* the expression as the selector reads it
Expr == Strip(text)

\* the start and end parts of an expression that holds a dash
StartPart == Strip(Split1(Expr, "-")[1])

EndPart == Strip(Split1(Expr, "-")[2])

IsInteger(s) == PyInt(s).exc = "none"

\* a start-end form whose present bounds are integers
WellFormedRange ==
    /\ Expr # <<"-">>
    /\ Contains(Expr, "-")
    /\ StartPart = <<>> \/ IsInteger(StartPart)
    /\ EndPart = <<>> \/ IsInteger(EndPart)

SingleInRange ==
    /\ ~Contains(Expr, "-")
    /\ IsInteger(Expr)
    /\ PyInt(Expr).val \in 1..max_n

GivenStart == IF StartPart = <<>> THEN 1 ELSE PyInt(StartPart).val

GivenEnd == IF EndPart = <<>> THEN max_n ELSE PyInt(EndPart).val

\* C1: parse_range never raises: every expression that is not empty, not a
\* lone dash, not a well-formed start-end form and not a single integer within
\* 1..max_n (a start-end form with a part that is no integer included) gives
\* the empty list.
C1_NeverRaises ==
    RangeDone =>
        /\ result.exc = "none"
        /\ (Expr # <<>> /\ Expr # <<"-">> /\ ~WellFormedRange /\ ~SingleInRange)
               => result.val = <<>>

\* C2: for a start-end form whose present bounds are integers, and max_n >= 1,
\* the result is the ascending list lo..hi, where a missing start is 1, a
\* missing end is max_n, reversed bounds are swapped and both are then clamped
\* into 1..max_n; the empty expression and the lone dash give 1..max_n.
C2_RangeForm ==
    (RangeDone /\ max_n >= 1) =>
        /\ (Expr = <<>> \/ Expr = <<"-">>) =>
               /\ result.exc = "none"
               /\ Len(result.val) = max_n
               /\ \A i \in 1..max_n : result.val[i] = i
        /\ WellFormedRange =>
               LET lo == Max(1, Min(max_n, Min(GivenStart, GivenEnd)))
                   hi == Max(1, Min(max_n, Max(GivenStart, GivenEnd)))
               IN  /\ result.exc = "none"
                   /\ lo <= hi
                   /\ Len(result.val) = hi - lo + 1
                   /\ \A i \in 1..Len(result.val) : result.val[i] = lo + i - 1

\* a reversed start-end form was parsed and gave more than one index
C2_Witness ==
    /\ RangeDone
    /\ max_n >= 1
    /\ WellFormedRange
    /\ GivenStart > GivenEnd
    /\ result.exc = "none"
    /\ Len(result.val) >= 2

\* C10: for every expression and every max_n >= 0, each integer of the
\* returned list lies in 1..max_n and the list is strictly ascending.
C10_InBounds ==
    (RangeDone /\ result.exc = "none") =>
        /\ \A i \in 1..Len(result.val) : result.val[i] \in 1..max_n
        /\ \A i \in 1..(Len(result.val) - 1) : result.val[i] < result.val[i + 1]

----------------------------------------------------------------------------
(* Regular expressions: a backtracking matcher that tries the alternatives *)
(* in the order of Python's re module, so that the first match found is    *)
(* the match re.search returns.                                            *)

\* a literal character
Lit(c) == [t |-> "lit", c |-> c]

\* \s*, greedy
Ws == [t |-> "ws", c |-> " "]

\* '?, greedy
OptQ == [t |-> "optq", c |-> "'"]

\* ([^']+), greedy, a capture group
Cap1 == [t |-> "cap1", c |-> "'"]

\* (.*?), lazy, a capture group
Lazy == [t |-> "lazy", c |-> ""]

NoMatch == [ok |-> FALSE, caps |-> <<>>]

\* \s (cls "ws") or [^'] (any other cls)
InClass(c, cls) == IF cls = "ws" THEN IsSpace(c) ELSE c # "'"

\* how many characters from position i on are of class cls
RECURSIVE RunLen(_, _, _)
RunLen(s, i, cls) ==
    IF i <= Len(s) /\ InClass(s[i], cls) THEN 1 + RunLen(s, i + 1, cls) ELSE 0

RECURSIVE ReMatch(_, _, _, _)
RECURSIVE TryGreedy(_, _, _, _, _, _, _)
RECURSIVE TryLazy(_, _, _, _, _)

\* the longest of k, k-1, ..., lo characters with which the rest still matches
TryGreedy(pat, s, p, i, k, lo, capture) ==
    IF k < lo THEN NoMatch
    ELSE LET r == ReMatch(pat, s, p + 1, i + k)
         IN  IF r.ok
             THEN IF capture
                  THEN [ok |-> TRUE, caps |-> <<SubSeq(s, i, i + k - 1)>> \o r.caps]
                  ELSE r
             ELSE TryGreedy(pat, s, p, i, k - 1, lo, capture)

\* the shortest of k, k+1, ... characters with which the rest still matches
TryLazy(pat, s, p, i, k) ==
    IF i + k - 1 > Len(s) THEN NoMatch
    ELSE LET r == ReMatch(pat, s, p + 1, i + k)
         IN  IF r.ok
             THEN [ok |-> TRUE, caps |-> <<SubSeq(s, i, i + k - 1)>> \o r.caps]
             ELSE TryLazy(pat, s, p, i, k + 1)

\* items p.. of pat matched against s from position i on
ReMatch(pat, s, p, i) ==
    IF p > Len(pat) THEN [ok |-> TRUE, caps |-> <<>>]
    ELSE LET it == pat[p]
         IN  CASE it.t = "lit" ->
                    IF i <= Len(s) /\ s[i] = it.c THEN ReMatch(pat, s, p + 1, i + 1)
                    ELSE NoMatch
               [] it.t = "ws" ->
                    TryGreedy(pat, s, p, i, RunLen(s, i, "ws"), 0, FALSE)
               [] it.t = "optq" ->
                    TryGreedy(pat, s, p, i,
                              IF i <= Len(s) /\ s[i] = "'" THEN 1 ELSE 0, 0, FALSE)
               [] it.t = "cap1" ->
                    TryGreedy(pat, s, p, i, RunLen(s, i, "cap1"), 1, TRUE)
               [] OTHER ->
                    TryLazy(pat, s, p, i, 0)

\* re.search: the match at the leftmost position that has one
RECURSIVE SearchFrom(_, _, _)
SearchFrom(pat, s, i) ==
    IF i > Len(s) + 1 THEN NoMatch
    ELSE LET r == ReMatch(pat, s, 1, i)
         IN  IF r.ok THEN r ELSE SearchFrom(pat, s, i + 1)

ReSearch(pat, s) == SearchFrom(pat, s, 1)

----------------------------------------------------------------------------
(* parse_live_unit_classes: the arguments of a class row *)

\* lines 218-221; "H" stands for the name handleclasscoursecontentunit
onclick_re ==
    <<Lit("H"), Ws, Lit("("), Ws, Lit("'"), Cap1, Lit("'"),
      Ws, Lit(","), Ws, OptQ, Lazy, OptQ,
      Ws, Lit(","), Ws, OptQ, Lazy, OptQ,
      Ws, Lit(","), Ws, OptQ, Lazy, OptQ,
      Ws, Lit(","), Ws, OptQ, Lazy, OptQ>>

\* lines 228-236: the first element, in search order, whose onclick matches
RECURSIVE FirstMatch(_)
FirstMatch(onclicks) ==
    IF onclicks = <<>> THEN None
    ELSE IF Head(onclicks) # None /\ ReSearch(onclick_re, Head(onclicks)).ok
         THEN ReSearch(onclick_re, Head(onclicks)).caps
         ELSE FirstMatch(Tail(onclicks))

\* lines 246-252
ArgsOf(groups) ==
    [uuid |-> IF groups # None THEN groups[1] ELSE None,
     courseId |-> IF groups # None THEN groups[2] ELSE None,
     unitId |-> IF groups # None THEN groups[3] ELSE None,
     classNo |-> IF groups # None THEN groups[4] ELSE None,
     resourceType |-> IF groups # None THEN groups[5] ELSE None]

\* lines 223-253, for one row: row.title is the first cell's text, row.onclicks
\* the onclick attributes of the row, its first cell and that cell's anchors
parse_row(r) == [title |-> r.title, args |-> ArgsOf(FirstMatch(r.onclicks))]

----------------------------------------------------------------------------
(* The server's pages and markup *)

\* Python truth of a string or None
Truthy(v) == v # None /\ v # <<>>

\* the document tokens the server hands out
DocTokens == {<<"d", "1">>, <<"d", "2">>}

\* A resolve response is the sequence of its fragments that the two id
\* patterns tell apart: a downloadcoursedoc('<id>') call ("trigger"), an
\* anchor whose href ends in download(slide)coursedoc/<id> ("href"), and
\* anything else ("text").
Fragments ==
    {[kind |-> k, id |-> d] : k \in {"trigger", "href"}, d \in DocTokens}
        \cup {[kind |-> "text", id |-> <<>>]}

Markups == SeqsUpTo(Fragments, MaxFrags)

\* The profile page, as far as the token is concerned: the content of its
\* csrf-token meta tag and the value of its _csrf hidden input, None if absent.
Pages == [meta : {None, <<"m">>}, input : {None, <<"i">>}]

\* re.findall of a pattern that captures the id of the fragments of one kind
RECURSIVE FindAll(_, _)
FindAll(markup, kind) ==
    IF markup = <<>> THEN <<>>
    ELSE (IF Head(markup).kind = kind THEN <<Head(markup).id>> ELSE <<>>)
             \o FindAll(Tail(markup), kind)

\* set(list)
PySet(l) == {l[i] : i \in DOMAIN l}

\* list(set): the elements once each, in the order of the set's hash table,
\* which for strings differs from run to run
ListsOf(S) ==
    {l \in [1..Cardinality(S) -> S] : \A i, j \in DOMAIN l : i # j => l[i] # l[j]}

\* lines 106-111, 155-160, 268-273: the token is read from the meta tag only
meta_csrf(page) == page.meta

\* a request: the function issuing it, the endpoint, the token sent with it,
\* its parameters, and the response it got
Req(fn, req, csrf, params, answer) ==
    [fn |-> fn, req |-> req, csrf |-> csrf, params |-> params, resp |-> answer]

----------------------------------------------------------------------------
(* fetch_preview_and_ids *)

\* line 264
rtype_of(slides) == IF Truthy(slides.resourceType) THEN slides.resourceType ELSE <<"2">>

\* line 265: the guard on uuid and courseId
has_preview_keys(slides) == Truthy(slides.uuid) /\ Truthy(slides.courseId)

\* the guard of line 296 with "or" for "and"
has_legacy_keys_Either(slides) == Truthy(slides.unitId) \/ Truthy(slides.classNo)

\* line 296: the guard on unitId and classNo
has_legacy_keys(slides) == Truthy(slides.unitId) /\ Truthy(slides.classNo)

\* lines 268-290: the token refresh and the preview request
preview_reqs(slides, page, m60) ==
    <<Req("fetch_preview_and_ids", "profile", None, <<>>, page),
      Req("fetch_preview_and_ids", "60", meta_csrf(page),
          <<slides.courseId, <<"2">>, slides.uuid>>, m60)>>

\* lines 298-310: the legacy request
legacy_req(slides, page, m343) ==
    Req("fetch_preview_and_ids", "343", meta_csrf(page),
        <<slides.uuid, slides.courseId, slides.unitId, slides.classNo, rtype_of(slides)>>,
        m343)

\* lines 312-314: the trigger pattern, then the href pattern
legacy_ids(markup) ==
    IF PySet(FindAll(markup, "trigger")) # {}
    THEN PySet(FindAll(markup, "trigger"))
    ELSE PySet(FindAll(markup, "href"))

\* lines 258-315, but for the order of the returned list: the set of ids, the
\* markup returned and the requests issued, given the profile page and the
\* responses m60 and m343 the server has for the two endpoints
fetch_preview_and_ids(e, page, m60, m343) ==
    LET slides == e.args
        ids60 == PySet(FindAll(m60, "trigger"))
    IN  IF ~has_preview_keys(slides)
        THEN [ids |-> {}, html |-> <<>>, reqs |-> <<>>]
        ELSE IF ids60 # {}
        THEN [ids |-> ids60, html |-> m60, reqs |-> preview_reqs(slides, page, m60)]
        ELSE IF ~has_legacy_keys(slides)
        THEN [ids |-> {}, html |-> m60, reqs |-> preview_reqs(slides, page, m60)]
        ELSE LET h == IF m343 # <<>> THEN m343 ELSE m60
             IN  [ids |-> legacy_ids(h), html |-> h,
                  reqs |-> Append(preview_reqs(slides, page, m60),
                                  legacy_req(slides, page, m343))]

----------------------------------------------------------------------------
(* A class row parsed and resolved: any row, any responses *)

Quote(v) == <<"'">> \o v \o <<"'">>

\* the arguments of a call joined by commas, a blank after each if spaced
RECURSIVE JoinArgs(_, _, _, _)
JoinArgs(args, quoted, spaced, j) ==
    IF j > Len(args) THEN <<>>
    ELSE (IF j = 1 THEN <<>> ELSE IF spaced THEN <<",", " ">> ELSE <<",">>)
             \o (IF j = 1 \/ quoted THEN Quote(args[j]) ELSE args[j])
             \o JoinArgs(args, quoted, spaced, j + 1)

\* the inline handler call the server writes for the arguments args
Call(args, quoted, spaced) == <<"H", "(">> \o JoinArgs(args, quoted, spaced, 1) \o <<")">>

\* the five arguments of a class, the last three of which may be empty
FullArgs ==
    {<<<<"u">>, <<"7">>, c, n, t>> :
        c \in {<<"8">>, <<>>}, n \in {<<"4">>, <<>>}, t \in {<<"3">>}}
        \cup {<<<<"u">>, <<>>, <<"8">>, <<"4">>, <<"3">>>>}

\* calls with trailing arguments omitted
ArgLists == {SubSeq(a, 1, k) : a \in FullArgs, k \in 1..5}

\* rows whose handler call sits on the row itself (every argument quoted, or
\* only the first and the others bare), rows without one, and rows whose call
\* sits on the anchor of the first cell; given is what the server put in the
\* call
Rows ==
    {[title |-> <<"t">>, onclicks |-> <<Call(a, TRUE, sp)>>, given |-> a] :
        a \in ArgLists, sp \in BOOLEAN}
    \cup {[title |-> <<"t">>, onclicks |-> <<Call(a, FALSE, sp)>>, given |-> a] :
        a \in {b \in ArgLists : \A j \in DOMAIN b : b[j] # <<>>}, sp \in BOOLEAN}
    \cup {[title |-> <<"t">>, onclicks |-> <<None>>, given |-> <<>>]}
    \cup {[title |-> <<"t">>, onclicks |-> <<None, None, Call(a, TRUE, FALSE)>>, given |-> a] :
        a \in FullArgs}

InitResolve ==
    /\ pc = "row"
    /\ row \in Rows
    /\ entry = None
    /\ doc_ids = <<>>
    /\ html = <<>>
    /\ log = <<>>
    /\ RangeIdle
    /\ DownloadIdle
    /\ MainIdle

\* what the legacy endpoint may answer: any markup if it is asked, and
\* nothing to choose if it is not
LegacyAnswers(e, page, m60, answers) ==
    IF \E j \in DOMAIN fetch_preview_and_ids(e, page, m60, <<>>).reqs :
           fetch_preview_and_ids(e, page, m60, <<>>).reqs[j].req = "343"
    THEN answers
    ELSE {<<>>}

\* parse_live_unit_classes on the row
ParseRow ==
    /\ pc = "row"
    /\ entry' = parse_row(row)
    /\ pc' = "entry"
    /\ UNCHANGED <<row, doc_ids, html, log>>
    /\ UNCHANGED rangeVars
    /\ UNCHANGED downloadVars
    /\ UNCHANGED <<mainVars, issued, earlier>>

\* fetch_preview_and_ids on the entry
ResolveEntry ==
    /\ pc = "entry"
    /\ \E page \in Pages, m60 \in Markups :
         \E m343 \in LegacyAnswers(entry, page, m60, Markups) :
           LET r == fetch_preview_and_ids(entry, page, m60, m343)
           IN  /\ doc_ids' \in ListsOf(r.ids)
               /\ html' = r.html
               /\ log' = log \o r.reqs
    /\ pc' = "resolved"
    /\ UNCHANGED <<row, entry>>
    /\ UNCHANGED rangeVars
    /\ UNCHANGED downloadVars
    /\ UNCHANGED <<mainVars, issued, earlier>>

NextResolve == ParseRow \/ ResolveEntry

SpecResolve == InitResolve /\ [][NextResolve]_vars

----------------------------------------------------------------------------
(* Claims about the class row parser and the resolver, under SpecResolve *)

\* the positions of the log that hold a request to endpoint r
Sent(r) == {j \in DOMAIN log : log[j].req = r}

\* a list without its repeats, each element where it first occurs
RECURSIVE FirstSeen(_)
FirstSeen(l) ==
    IF l = <<>> THEN <<>>
    ELSE LET front == FirstSeen(SubSeq(l, 1, Len(l) - 1))
         IN  IF l[Len(l)] \in PySet(front) THEN front ELSE Append(front, l[Len(l)])

\* C3: when the tier-1 preview response holds download-trigger tokens, the
\* resolver returns each distinct token once, in the order of its first
\* occurrence in the response.
C3_FirstSeenOrder ==
    pc = "resolved" =>
        \A j \in Sent("60") :
            FindAll(log[j].resp, "trigger") # <<>> =>
                doc_ids = FirstSeen(FindAll(log[j].resp, "trigger"))

\* C4: the tier-2 request (343) is issued only after a tier-1 request (60)
\* that yielded no ids, and only if unitId and classNo are both present; with
\* uuid or courseId absent no request at all is issued and the result is
\* empty; at most one tier-1 and one tier-2 request is made.
C4_TierOrder ==
    pc = "resolved" =>
        /\ \A j \in Sent("343") :
               /\ \E i \in Sent("60") : i < j /\ FindAll(log[i].resp, "trigger") = <<>>
               /\ entry.args.unitId \notin {None, <<>>}
               /\ entry.args.classNo \notin {None, <<>>}
        /\ (entry.args.uuid \in {None, <<>>} \/ entry.args.courseId \in {None, <<>>})
               => (log = <<>> /\ doc_ids = <<>>)
        /\ Cardinality(Sent("60")) <= 1
        /\ Cardinality(Sent("343")) <= 1

\* the legacy request was issued, and found an id
C4_Witness ==
    /\ pc = "resolved"
    /\ Sent("343") # {}
    /\ Sent("60") # {}
    /\ doc_ids # <<>>

\* the arguments of an entry, in the order of the handler call
ArgList(a) == <<a.uuid, a.courseId, a.unitId, a.classNo, a.resourceType>>

\* C9: a row whose handler call carries k of the five arguments (1 <= k <= 5)
\* is accepted: the first k arguments are recorded as given, the others as
\* absent; the resourceType of a five-argument call is what the tier-2
\* request then sends.
C9_PartialMatch ==
    (pc \in {"entry", "resolved"} /\ Len(row.given) >= 1) =>
        /\ \A j \in 1..5 :
               ArgList(entry.args)[j] = IF j <= Len(row.given) THEN row.given[j] ELSE None
        /\ \A j \in Sent("343") : Len(row.given) = 5 => log[j].params[5] = row.given[5]

----------------------------------------------------------------------------
(* slugify *)

\* line 35: the length cap of a slug
SlugCap == 200

\* the characters of [<>:"/\|?*\n\r\t], of which titles here hold "/"
IsForbidden(c) == c = "/"

\* re.sub(cls+, "_", s): every run of characters of one class becomes one "_"
RECURSIVE SubRuns(_, _)
SubRuns(s, cls) ==
    LET In(c) == IF cls = "forbidden" THEN IsForbidden(c) ELSE IsSpace(c)
    IN  IF s = <<>> THEN <<>>
        ELSE IF ~In(Head(s)) THEN <<Head(s)>> \o SubRuns(Tail(s), cls)
        ELSE IF Len(s) >= 2 /\ In(s[2]) THEN SubRuns(Tail(s), cls)
        ELSE <<"_">> \o SubRuns(Tail(s), cls)

\* lines 31-35
slugify(s) ==
    LET t == SubRuns(SubRuns(Strip(s), "forbidden"), "ws")
        cut == SubSeq(t, 1, Min(SlugCap, Len(t)))
    IN  IF cut # <<>> THEN cut ELSE <<"untitled">>

----------------------------------------------------------------------------
(* download_by_ids: the file name of a fetched document *)

\* A Content-Disposition header is a sequence of tokens: "FS" stands for the
\* text filename*=UTF-8'', "F" for filename=, "Q" for a double quote, ";" for
\* itself, and any other token for a character of a name.

\* how many tokens from position i on are not in stop
RECURSIVE RunNotIn(_, _, _)
RunNotIn(s, i, stop) ==
    IF i <= Len(s) /\ s[i] \notin stop THEN 1 + RunNotIn(s, i + 1, stop) ELSE 0

\* line 337: re.search(r"filename\*=UTF-8''([^;]+)", cd), group 1 or None
RECURSIVE ext_filename(_, _)
ext_filename(cd, p) ==
    IF p > Len(cd) THEN None
    ELSE IF cd[p] = "FS" /\ RunNotIn(cd, p + 1, {";"}) >= 1
    THEN SubSeq(cd, p + 1, p + RunNotIn(cd, p + 1, {";"}))
    ELSE ext_filename(cd, p + 1)

\* line 341: re.search(r'filename="?([^";]+)"?', cd), group 1 or None
RECURSIVE plain_filename(_, _)
plain_filename(cd, p) ==
    IF p > Len(cd) THEN None
    ELSE LET q == IF p + 1 <= Len(cd) /\ cd[p + 1] = "Q" THEN 1 ELSE 0
             run == RunNotIn(cd, p + 1 + q, {"Q", ";"})
         IN  IF cd[p] = "F" /\ run >= 1
             THEN SubSeq(cd, p + 1 + q, p + q + run)
             ELSE plain_filename(cd, p + 1)

\* the plain parameter consulted before the extended one
header_filename_PlainFirst(cd) ==
    IF cd = <<>> THEN None
    ELSE IF plain_filename(cd, 1) # None THEN plain_filename(cd, 1)
    ELSE ext_filename(cd, 1)

\* lines 335-343: the name the header gives, or None
header_filename(cd) ==
    IF cd = <<>> THEN None
    ELSE IF ext_filename(cd, 1) # None THEN ext_filename(cd, 1)
    ELSE plain_filename(cd, 1)

\* lines 346-354: the extension guessed from the Content-Type, given as the set
\* of the words pdf, word, powerpoint, ppt and zip that its lower case holds
guess_ext(ct) ==
    IF "pdf" \in ct THEN ".pdf"
    ELSE IF "word" \in ct THEN ".docx"
    ELSE IF "powerpoint" \in ct \/ "ppt" \in ct THEN ".pptx"
    ELSE IF "zip" \in ct THEN ".zip"
    ELSE ".pdf"

DigitChar(d) ==
    CASE d = 0 -> "0" [] d = 1 -> "1" [] d = 2 -> "2" [] d = 3 -> "3" [] d = 4 -> "4"
      [] d = 5 -> "5" [] d = 6 -> "6" [] d = 7 -> "7" [] d = 8 -> "8" [] OTHER -> "9"

\* str(n), n >= 0
RECURSIVE Decimal(_)
Decimal(n) == IF n < 10 THEN <<DigitChar(n)>> ELSE Append(Decimal(n \div 10), DigitChar(n % 10))

\* f"{n:02d}", n >= 0
Fmt02d(n) == IF n < 10 THEN <<"0", DigitChar(n)>> ELSE Decimal(n)

\* line 355: the index suffix
index_suffix(i, n_ids) == IF n_ids > 1 THEN <<"_">> \o Decimal(i) ELSE <<>>

\* line 356
synth_filename(ct, i, n_ids, si, ttl) ==
    Fmt02d(si) \o index_suffix(i, n_ids) \o <<"_">> \o slugify(ttl) \o <<guess_ext(ct)>>

\* lines 333-356
choose_filename(cd, ct, i, n_ids, si, ttl) ==
    IF Truthy(header_filename(cd)) THEN header_filename(cd)
    ELSE synth_filename(ct, i, n_ids, si, ttl)

\* line 357: os.path.join(out_dir, filename), for a name without a separator
Dest(name) == <<"out/">> \o name

----------------------------------------------------------------------------
(* download_by_ids *)

\* line 330, with the test of the body left out
fetch_ok_StatusOnly(r) == r.status = 200

\* line 330: HTTP 200 and a body that is not empty
fetch_ok(r) == r.status = 200 /\ r.body # <<>>

\* the request of lines 328-329 for the id at position i, with its response
download_req(ids, i, r) == Req("download_by_ids", "download", None, <<ids[i]>>, r)

----------------------------------------------------------------------------
(* The file name of one fetched document: any header, any type *)

CdTokens == {"FS", "F", "Q", ";", "a"}

Cds == SeqsUpTo(CdTokens, MaxCd)

ContentTypes == {{}, {"pdf"}, {"word"}, {"powerpoint"}, {"ppt"}, {"zip"}, {"zip", "word"}}

Titles == {<<>>, <<"a">>, <<" ", "a", "/", "a">>}

\* the batches the name is chosen in: one id, or two
NameBatches == {<<<<"d", "1">>>>, <<<<"d", "1">>, <<"d", "2">>>>}

InitFilename ==
    /\ pc = "name"
    /\ doc_ids \in NameBatches
    /\ dl_i \in 1..Len(doc_ids)
    /\ si_no \in 1..MaxN
    /\ title \in Titles
    /\ resp \in [status : {200}, body : {<<"%">>}, cd : Cds, ct : ContentTypes]
    /\ filename = None
    /\ saved = <<>>
    /\ fs = <<>>
    /\ row = None /\ entry = None /\ html = <<>> /\ log = <<>>
    /\ RangeIdle
    /\ MainIdle

\* lines 333-356 on the response
ChooseName ==
    /\ pc = "name"
    /\ filename' = choose_filename(resp.cd, resp.ct, dl_i, Len(doc_ids), si_no, title)
    /\ pc' = "named"
    /\ UNCHANGED <<si_no, title, dl_i, resp, saved, fs>>
    /\ UNCHANGED resolveVars
    /\ UNCHANGED rangeVars
    /\ UNCHANGED <<mainVars, issued, earlier>>

NextFilename == ChooseName

SpecFilename == InitFilename /\ [][NextFilename]_vars

----------------------------------------------------------------------------
(* A batch downloaded: any ids, any responses, any outcome of the writes *)

\* the headers, types and responses the download route answers a batch with
BatchCds == {<<>>, <<"F", "a">>}

BatchCts == {{}, {"zip"}}

Responses == [status : {200, 404}, body : {<<>>, <<"%">>}, cd : BatchCds, ct : BatchCts]

\* the lists the resolver can return, but for the empty one
Batches == UNION {ListsOf(S) : S \in (SUBSET DocTokens) \ {{}}}

InitDownload ==
    /\ pc = "download"
    /\ doc_ids \in Batches
    /\ si_no \in 1..MaxN
    /\ title \in Titles
    /\ dl_i = 1
    /\ resp = None
    /\ filename = None
    /\ saved = <<>>
    /\ fs = <<>>
    /\ row = None /\ entry = None /\ html = <<>> /\ log = <<>>
    /\ RangeIdle
    /\ MainIdle

\* lines 327-364: one turn of the loop, for the id at position dl_i; the
\* function returns after the turn for the last id
DownloadStep ==
    /\ pc = "download"
    /\ dl_i <= Len(doc_ids)
    /\ \E r \in Responses :
         \E written \in IF fetch_ok(r) THEN BOOLEAN ELSE {FALSE} :
           LET name == choose_filename(r.cd, r.ct, dl_i, Len(doc_ids), si_no, title)
           IN  /\ log' = Append(IF dl_i = 1 THEN <<>> ELSE log, download_req(doc_ids, dl_i, r))
               /\ resp' = r
               /\ filename' = IF fetch_ok(r) THEN name ELSE None
               /\ fs' = IF fetch_ok(r)
                        THEN Append(fs, [path |-> Dest(name), id |-> doc_ids[dl_i],
                                         ok |-> written])
                        ELSE fs
               /\ saved' = IF fetch_ok(r) /\ written THEN Append(saved, Dest(name)) ELSE saved
    /\ dl_i' = dl_i + 1
    /\ pc' = IF dl_i = Len(doc_ids) THEN "batch_done" ELSE "download"
    /\ issued' = issued \cup {"download"}
    /\ UNCHANGED earlier
    /\ UNCHANGED <<si_no, title, row, entry, doc_ids, html>>
    /\ UNCHANGED rangeVars
    /\ UNCHANGED mainVars

NextDownload == DownloadStep

SpecDownload == InitDownload /\ [][NextDownload]_vars

----------------------------------------------------------------------------
(* Claims about the downloader *)

\* the requests of the log that went to the download route
DownloadReqs == {j \in DOMAIN log : log[j].req = "download"}

\* the id at position j was fetched with HTTP 200 and a body, and written
SavedOk(j) ==
    /\ log[j].resp.status = 200
    /\ log[j].resp.body # <<>>
    /\ \E k \in DOMAIN fs : fs[k].id = doc_ids[j] /\ fs[k].ok

\* the path written for the id at position j
PathOf(j) == fs[CHOOSE k \in DOMAIN fs : fs[k].id = doc_ids[j]].path

\* the m-th element, in ascending order, of a set of numbers
Nth(S, m) == CHOOSE j \in S : Cardinality({x \in S : x < j}) = m - 1

ExtAt(cd, p) == cd[p] = "FS" /\ p + 1 <= Len(cd) /\ cd[p + 1] # ";"

\* the plain parameter filename=<value> or filename="<value>" with a value
PlainStart(cd, p) == IF p + 1 <= Len(cd) /\ cd[p + 1] = "Q" THEN p + 2 ELSE p + 1

PlainAt(cd, p) ==
    cd[p] = "F" /\ PlainStart(cd, p) <= Len(cd) /\ cd[PlainStart(cd, p)] \notin {"Q", ";"}

\* the tokens from position b up to the first token of stop, or the end
ValueFrom(cd, b, stop) ==
    LET e == CHOOSE e \in b..Len(cd) :
                 /\ \A x \in b..e : cd[x] \notin stop
                 /\ e = Len(cd) \/ cd[e + 1] \in stop
    IN  SubSeq(cd, b, e)

HasExt == \E p \in DOMAIN resp.cd : ExtAt(resp.cd, p)

HasPlain == \E p \in DOMAIN resp.cd : PlainAt(resp.cd, p)

ExtValue ==
    LET p == CHOOSE p \in DOMAIN resp.cd :
                 ExtAt(resp.cd, p) /\ \A x \in 1..(p - 1) : ~ExtAt(resp.cd, x)
    IN  ValueFrom(resp.cd, p + 1, {";"})

PlainValue ==
    LET p == CHOOSE p \in DOMAIN resp.cd :
                 PlainAt(resp.cd, p) /\ \A x \in 1..(p - 1) : ~PlainAt(resp.cd, x)
    IN  ValueFrom(resp.cd, PlainStart(resp.cd, p), {"Q", ";"})

\* C7: the file name of a fetched document is the extended (filename*=)
\* parameter of Content-Disposition if present; otherwise the plain filename
\* parameter if present; otherwise, and only then, the sequence number in two
\* digits, an index suffix exactly when the batch holds more than one id, the
\* slug of the title and the extension inferred from Content-Type (.pdf by
\* default).
C7_NamePriority ==
    pc = "named" =>
        /\ HasExt => filename = ExtValue
        /\ (~HasExt /\ HasPlain) => filename = PlainValue
        /\ (~HasExt /\ ~HasPlain) =>
               /\ Len(Fmt02d(si_no)) = 2
               /\ filename =
                      Fmt02d(si_no)
                          \o (IF Len(doc_ids) > 1 THEN <<"_">> \o Decimal(dl_i) ELSE <<>>)
                          \o <<"_">> \o slugify(title) \o <<guess_ext(resp.ct)>>
               /\ resp.ct = {} => filename[Len(filename)] = ".pdf"

\* a header with both parameters, of different values; the extended one won
C7_Witness ==
    /\ pc = "named"
    /\ HasExt
    /\ HasPlain
    /\ ExtValue # PlainValue
    /\ filename = ExtValue

----------------------------------------------------------------------------
(* login and the token *)

\* lines 69-76: the meta tag, then the hidden input
login_csrf(page) == IF Truthy(page.meta) THEN page.meta ELSE page.input

\* line 82: resp.ok and (the profile path in the final URL or "logout" in the body)
login_success(a) == a.ok /\ (a.profile_url \/ a.logout)

LoginAnswers == [ok : BOOLEAN, profile_url : BOOLEAN, logout : BOOLEAN]

\* the endpoints of a list of requests
Endpoints(reqs) == {reqs[j].req : j \in DOMAIN reqs}

----------------------------------------------------------------------------
(* main: the run, from login to the last class selected *)

\* what the user types at a "Select ... number" prompt
ChoiceTexts == {<<"a">>, <<"0">>, <<"1">>, <<"2">>, <<"1", "2">>}

\* what the user types at the range prompt
MainTexts == {<<>>, <<"1">>, <<"2", "-", "1">>, <<"a">>, <<"a", "-">>}

\* the value attributes of the options of the semester list
OptionLists == SeqsUpTo({None, <<"s", "1">>}, MaxRows)

\* the course ids of the rows of the subject table, None where a row has none
ItemLists == SeqsUpTo({None, <<"7">>}, MaxRows)

\* the unit ids of the anchors of the unit tabs, None where an anchor has none
UnitLists == SeqsUpTo({None, <<"8">>}, MaxRows)

\* the rows of the class table: with a title and a call, with a call only,
\* with a title only
MainRows ==
    LET full == <<<<"u">>, <<"7">>, <<"8">>, <<"4">>, <<"3">>>>
    IN  {[title |-> <<"t">>, onclicks |-> <<Call(full, TRUE, FALSE)>>, given |-> full],
         [title |-> <<>>, onclicks |-> <<Call(full, TRUE, FALSE)>>, given |-> full],
         [title |-> <<"t">>, onclicks |-> <<None>>, given |-> <<>>]}

RowLists == SeqsUpTo(MainRows, MaxRows)

\* what the resolve endpoints answer during a run
MainMarkups ==
    {<<>>,
     <<[kind |-> "trigger", id |-> <<"d", "1">>]>>,
     <<[kind |-> "trigger", id |-> <<"d", "1">>], [kind |-> "trigger", id |-> <<"d", "2">>]>>,
     <<[kind |-> "href", id |-> <<"d", "2">>]>>}

\* lines 96-99: the options that have a value
RECURSIVE WithValue(_)
WithValue(opts) ==
    IF opts = <<>> THEN <<>>
    ELSE (IF Truthy(Head(opts)) THEN <<Head(opts)>> ELSE <<>>) \o WithValue(Tail(opts))

\* line 122: re.sub(r"[^0-9]", "", str(sem_id))
RECURSIVE DigitsOnly(_)
DigitsOnly(s) ==
    IF s = <<>> THEN <<>>
    ELSE (IF Head(s) \in Digits THEN <<Head(s)>> ELSE <<>>) \o DigitsOnly(Tail(s))

\* lines 430-434, 447-451, 466-470: the number typed is an integer within 1..n
valid_choice(typed, n) ==
    PyInt(typed).exc = "none" /\ PyInt(typed).val >= 1 /\ PyInt(typed).val <= n

\* the loop left after the first class
after_class_Stop(p) == "done"

\* the position after the class at position p: the next turn of the loop of
\* line 503, or the end of the run
after_class(p) == IF p + 1 > Len(indices) THEN "done" ELSE "loop"

Init ==
    /\ pc = "login"
    /\ log = <<>>
    /\ row = None /\ entry = None /\ doc_ids = <<>> /\ html = <<>>
    /\ RangeIdle
    /\ DownloadIdle
    /\ MainIdle

\* lines 413-420 and login (66-86)
Login ==
    /\ pc = "login"
    /\ \E page \in Pages, a \in LoginAnswers :
           /\ log' = <<Req("login", "login_page", None, <<>>, page),
                       Req("login", "login_post", login_csrf(page), <<>>, a)>>
           /\ pc' = IF login_success(a) THEN "semesters" ELSE "exit_login"
    /\ issued' = issued \cup {"login_page", "login_post"}
    /\ UNCHANGED earlier
    /\ UNCHANGED <<row, entry, doc_ids, html>>
    /\ UNCHANGED <<rangeVars, downloadVars, mainVars>>

\* lines 422-435 and get_semesters (90-100)
SemesterStage ==
    /\ pc = "semesters"
    /\ \E page \in Pages, opts \in OptionLists, typed \in ChoiceTexts :
           LET semesters == WithValue(opts)
           IN  /\ log' = <<Req("get_semesters", "profile", None, <<>>, page),
                           Req("get_semesters", "semesters", None, <<>>, opts)>>
               /\ IF semesters # <<>> /\ valid_choice(typed, Len(semesters))
                  THEN sem_id' = semesters[PyInt(typed).val] /\ pc' = "subjects"
                  ELSE sem_id' = sem_id /\ pc' = "exit_semester"
    /\ issued' = issued \cup {"profile", "semesters"}
    /\ UNCHANGED earlier
    /\ UNCHANGED <<row, entry, doc_ids, html>>
    /\ UNCHANGED <<rangeVars, downloadVars>>
    /\ UNCHANGED <<course_id, unit_id, class_items, indices, pos, resolved>>

\* lines 437-454, get_subjects_html (104-127) and
\* parse_subjects_with_course_ids (129-149), whose result items is given by
\* the course id of each row
SubjectStage ==
    /\ pc = "subjects"
    /\ \E page \in Pages, items \in ItemLists, typed \in ChoiceTexts :
           /\ log' = <<Req("get_subjects_html", "profile", None, <<>>, page),
                       Req("get_subjects_html", "38", meta_csrf(page),
                           <<DigitsOnly(sem_id)>>, items)>>
           /\ IF items # <<>> /\ valid_choice(typed, Len(items))
                     /\ Truthy(items[PyInt(typed).val])
              THEN course_id' = items[PyInt(typed).val] /\ pc' = "units"
              ELSE course_id' = course_id /\ pc' = "exit_subject"
    /\ issued' = issued \cup {"profile", "38"}
    /\ UNCHANGED earlier
    /\ UNCHANGED <<row, entry, doc_ids, html>>
    /\ UNCHANGED <<rangeVars, downloadVars>>
    /\ UNCHANGED <<sem_id, unit_id, class_items, indices, pos, resolved>>

\* lines 456-473, get_course_content (153-171) and extract_units_from_tabs
\* (173-195), whose result units is given by the unit id of each anchor
UnitStage ==
    /\ pc = "units"
    /\ \E page \in Pages, units \in UnitLists, typed \in ChoiceTexts :
           /\ log' = <<Req("get_course_content", "profile", None, <<>>, page),
                       Req("get_course_content", "42", meta_csrf(page),
                           <<course_id>>, units)>>
           /\ IF units # <<>> /\ valid_choice(typed, Len(units))
                     /\ Truthy(units[PyInt(typed).val])
              THEN unit_id' = units[PyInt(typed).val] /\ pc' = "classes"
              ELSE unit_id' = unit_id /\ pc' = "exit_unit"
    /\ issued' = issued \cup {"profile", "42"}
    /\ UNCHANGED earlier
    /\ UNCHANGED <<row, entry, doc_ids, html>>
    /\ UNCHANGED <<rangeVars, downloadVars>>
    /\ UNCHANGED <<sem_id, course_id, class_items, indices, pos, resolved>>

\* lines 475-480, fetch_live_unit_content (199-209) and
\* parse_live_unit_classes (211-254)
ClassStage ==
    /\ pc = "classes"
    /\ \E rows \in RowLists :
           /\ log' = <<Req("fetch_live_unit_content", "43", None, <<unit_id>>, rows)>>
           /\ class_items' = [j \in DOMAIN rows |-> parse_row(rows[j])]
           /\ pc' = IF rows # <<>> THEN "select" ELSE "exit_classes"
    /\ issued' = issued \cup {"43"}
    /\ UNCHANGED earlier
    /\ UNCHANGED <<row, entry, doc_ids, html>>
    /\ UNCHANGED <<rangeVars, downloadVars>>
    /\ UNCHANGED <<sem_id, course_id, unit_id, indices, pos, resolved>>

\* lines 493-501: the range typed and parsed; a ValueError ends the run
SelectRange ==
    /\ pc = "select"
    /\ \E typed \in MainTexts :
           LET r == parse_range(typed, Len(class_items))
           IN  /\ text' = typed
               /\ max_n' = Len(class_items)
               /\ result' = r
               /\ indices' = r.val
               /\ pc' = IF r.exc # "none" THEN "crash"
                        ELSE IF r.val = <<>> THEN "exit_select"
                        ELSE "loop"
    /\ pos' = 1
    /\ UNCHANGED <<row, entry, doc_ids, html, log, issued, earlier>>
    /\ UNCHANGED downloadVars
    /\ UNCHANGED <<sem_id, course_id, unit_id, class_items, resolved>>

\* lines 503-511: one turn of the loop up to the call of download_by_ids; main
\* drops the markup the resolver returns
ResolveClass ==
    /\ pc = "loop"
    /\ pos <= Len(indices)
    /\ LET idx == indices[pos]
       IN  IF idx < 1 \/ idx > Len(class_items)
           THEN /\ pos' = pos + 1
                /\ pc' = after_class(pos)
                /\ UNCHANGED <<entry, doc_ids, log, resolved, issued>>
                /\ UNCHANGED <<si_no, title, dl_i, saved, fs>>
           ELSE \E page \in Pages, m60 \in MainMarkups :
                  \E m343 \in LegacyAnswers(class_items[idx], page, m60, MainMarkups) :
                    LET r == fetch_preview_and_ids(class_items[idx], page, m60, m343)
                    IN  \E ids \in ListsOf(r.ids) :
                          /\ entry' = class_items[idx]
                          /\ doc_ids' = ids
                          /\ log' = r.reqs
                          /\ resolved' = Append(resolved, idx)
                          /\ issued' = issued \cup Endpoints(r.reqs)
                          /\ IF ids = <<>>
                             THEN /\ pos' = pos + 1
                                  /\ pc' = after_class(pos)
                                  /\ UNCHANGED <<si_no, title, dl_i, saved, fs>>
                             ELSE /\ pos' = pos
                                  /\ pc' = "download"
                                  /\ si_no' = idx
                                  /\ title' = IF Truthy(class_items[idx].title)
                                              THEN class_items[idx].title
                                              ELSE <<"class_">> \o Decimal(idx)
                                  /\ dl_i' = 1
                                  /\ saved' = <<>>
                                  /\ fs' = <<>>
    /\ UNCHANGED <<row, html, resp, filename>>
    /\ UNCHANGED rangeVars
    /\ UNCHANGED <<sem_id, course_id, unit_id, class_items, indices, earlier>>

\* lines 512-514: the batch is over, whatever it saved; the values of the
\* turn are dropped
EndBatch ==
    /\ pc = "batch_done"
    /\ pos >= 1
    /\ pos' = pos + 1
    /\ pc' = after_class(pos)
    /\ entry' = None
    /\ doc_ids' = <<>>
    /\ log' = <<>>
    /\ si_no' = 0
    /\ title' = <<>>
    /\ dl_i' = 0
    /\ resp' = None
    /\ filename' = None
    /\ saved' = <<>>
    /\ fs' = <<>>
    /\ UNCHANGED <<row, html, issued>>
    /\ UNCHANGED rangeVars
    /\ UNCHANGED <<sem_id, course_id, unit_id, class_items, indices, resolved>>

\* the end of a batch in a run that does not follow the paths saved
BatchDone == EndBatch /\ UNCHANGED earlier

\* the end of a batch in a run that keeps the paths the batch saved
BatchKept == EndBatch /\ earlier' = earlier \cup {saved[j] : j \in DOMAIN saved}

Next ==
    \/ Login
    \/ SemesterStage
    \/ SubjectStage
    \/ UnitStage
    \/ ClassStage
    \/ SelectRange
    \/ ResolveClass
    \/ DownloadStep
    \/ BatchDone

Spec == Init /\ [][Next]_vars

----------------------------------------------------------------------------
(* The class loop of main with the paths saved kept from class to class: the
   run from the moment the classes of the unit are listed *)

\* the state of a run after lines 475-480, the classes listed
InitLoop ==
    /\ pc = "select"
    /\ sem_id = <<"s", "1">>
    /\ course_id = <<"7">>
    /\ unit_id = <<"8">>
    /\ \E rows \in RowLists \ {<<>>} :
           /\ class_items = [j \in DOMAIN rows |-> parse_row(rows[j])]
           /\ log = <<Req("fetch_live_unit_content", "43", None, <<unit_id>>, rows)>>
    /\ indices = <<>>
    /\ pos = 0
    /\ resolved = <<>>
    /\ issued = {"login_page", "login_post", "profile", "semesters", "38", "42", "43"}
    /\ earlier = {}
    /\ row = None /\ entry = None /\ doc_ids = <<>> /\ html = <<>>
    /\ RangeIdle
    /\ DownloadIdle

NextLoop ==
    \/ SelectRange
    \/ ResolveClass
    \/ DownloadStep
    \/ BatchKept

SpecLoop == InitLoop /\ [][NextLoop]_vars

----------------------------------------------------------------------------
(* Claims about the run, checked under Spec *)

\* the endpoints that take an authenticated request after login
AuthCalls == {"semesters", "38", "42", "43", "60", "343", "download"}

\* C5: every authenticated request issued after login is preceded, within the
\* same operation, by a token refresh: a fetch of the profile page and the
\* extraction of the token from it by the strategy of login (the meta tag,
\* then the hidden input); the token an operation sends is the one it
\* extracted itself.
C5_RefreshBeforeCall ==
    \A j \in DOMAIN log :
        log[j].req \in AuthCalls =>
            \E i \in 1..(j - 1) :
                /\ log[i].req = "profile"
                /\ log[i].fn = log[j].fn
                /\ log[j].csrf = login_csrf(log[i].resp)

InLoop == pc \in {"loop", "download", "batch_done"}

C11_NoOverwrite ==
    /\ \A a, b \in DOMAIN saved : a # b => saved[a] # saved[b]
    /\ \A a \in DOMAIN saved : saved[a] \notin earlier

====
